---- MODULE Spec2Model ----
(***************************************************************************)
(* A model of dbmove's MySQLHandler (src/database.py): the statement       *)
(* rewriter _modify_create_table_statement and the migration routine       *)
(* migrate_database, run against a model of the two MySQL servers.         *)
(*                                                                         *)
(* Text is modelled as a sequence of tokens.  A token is a piece of text   *)
(* that the regular expressions of the rewriter either take whole or not   *)
(* at all: a keyword, a quoted literal, a back-quoted identifier, one      *)
(* space, one comma, one newline.  A regular expression of the source is   *)
(* matched on the tokens the way re matches it on the characters:          *)
(* leftmost match first, greedy repetition, matches that do not overlap.   *)
(***************************************************************************)
EXTENDS Integers, Sequences, FiniteSets, TLC

(***************************************************************************)
(* Bounds of the model.                                                    *)
(***************************************************************************)
MaxTables == 2
MaxRows == 2500
MaxFrags == 3
MaxClicks == 2

\* src/database.py:180, batch_size = 1000
batch_size == 1000

(***************************************************************************)
(* Tokens.                                                                 *)
(***************************************************************************)
SP == " "
NL == "\n"
COMMA == ","
ZD == "'0000-00-00'"
ZDT == "'0000-00-00 00:00:00'"

\* Tokens made only of the characters [a-zA-Z0-9_].
DigitToks == {"0", "1", "7"}
WordToks ==
    DigitToks \cup
    {"datetime", "timestamp", "DATETIME", "date", "int", "text",
     "DEFAULT", "default", "NULL", "NOT", "CURRENT_TIMESTAMP", "ON", "UPDATE",
     "CHARACTER", "SET", "COLLATE", "utf8", "utf8_bin", "TABLE", "CREATE"}

\* Back-quoted identifiers: a name matching \w+ between two back quotes.
\* The back quote cannot be written in a TLA+ string: the token [d] stands for
\* the text  back quote, d, back quote.
Idents == {"d", "e", "T", "t", "u", "v", "root", "localhost"}
Quote(name) ==
    CASE name = "d" -> "[d]"
      [] name = "e" -> "[e]"
      [] name = "T" -> "[T]"
      [] name = "t" -> "[t]"
      [] name = "u" -> "[u]"
      [] name = "v" -> "[v]"
      [] name = "root" -> "[root]"
      [] name = "localhost" -> "[localhost]"
BackquotedToks == {Quote(n) : n \in Idents}
Unquote(tok) == CHOOSE n \in Idents : Quote(n) = tok

\* (datetime|timestamp) under re.IGNORECASE
TemporalTypeToks == {"datetime", "timestamp", "DATETIME"}

IsWord(t) == t \in WordToks
IsDigit(t) == t \in DigitToks
IsSpace(t) == t \in {SP, NL}
NotCommaNewline(t) == t \notin {COMMA, NL}

(***************************************************************************)
(* Matching on token sequences.                                            *)
(***************************************************************************)
Min(a, b) == IF a < b THEN a ELSE b

\* The literal pat occurs in s at position i.
LitAt(s, i, pat) ==
    /\ i + Len(pat) - 1 <= Len(s)
    /\ SubSeq(s, i, i + Len(pat) - 1) = pat

\* The test (pat in s) of Python on strings.
Contains(s, pat) == \E i \in 1..Len(s) : LitAt(s, i, pat)

\* Length of the longest run of tokens of class cls starting at s[i].
RECURSIVE RunLen(_, _, _)
RunLen(s, i, cls) ==
    IF i > Len(s) THEN 0
    ELSE LET ok == CASE cls = "word" -> IsWord(s[i])
                     [] cls = "digit" -> IsDigit(s[i])
                     [] cls = "space" -> IsSpace(s[i])
                     [] cls = "coldef" -> NotCommaNewline(s[i])
         IN IF ok THEN 1 + RunLen(s, i + 1, cls) ELSE 0

\* A pattern is  lit cls+ tail  (cls = "none": the literal alone).
\* The length of its match at s[i], 0 when there is none.  The class run is
\* greedy; the tail never starts with a token of the class, so the longest
\* run is the only one the tail can follow.
MatchLen(p, s, i) ==
    IF ~LitAt(s, i, p.lit) THEN 0
    ELSE IF p.cls = "none" THEN Len(p.lit)
    ELSE IF p.cls = "definer" THEN
        \* DEFINER= then two back-quoted names with an @ between them
        IF /\ i + 3 <= Len(s)
           /\ s[i + 1] \in BackquotedToks
           /\ s[i + 2] = "@"
           /\ s[i + 3] \in BackquotedToks
        THEN 4 ELSE 0
    ELSE LET n == RunLen(s, i + Len(p.lit), p.cls)
         IN IF n > 0 /\ LitAt(s, i + Len(p.lit) + n, p.tail)
            THEN Len(p.lit) + n + Len(p.tail)
            ELSE 0

\* re.sub(p, rep, s): every leftmost non-overlapping match replaced.
RECURSIVE ReSubFrom(_, _, _, _)
ReSubFrom(p, rep, s, i) ==
    IF i > Len(s) THEN <<>>
    ELSE LET n == MatchLen(p, s, i)
         IN IF n > 0 THEN rep \o ReSubFrom(p, rep, s, i + n)
            ELSE <<s[i]>> \o ReSubFrom(p, rep, s, i + 1)
ReSub(p, rep, s) == ReSubFrom(p, rep, s, 1)

Lit(toks) == [lit |-> toks, cls |-> "none", tail |-> <<>>]

\* str.replace(old, new): every non-overlapping occurrence, left to right.
StrReplace(s, old, new) == ReSub(Lit(old), new, s)

(***************************************************************************)
(* _modify_create_table_statement, src/database.py:59-106.                 *)
(***************************************************************************)
\* line 70: re.sub of the DEFINER clause
DefinerPattern == [lit |-> <<"DEFINER=">>, cls |-> "definer", tail |-> <<>>]
RemoveDefiner(s) == ReSub(DefinerPattern, <<>>, s)

\* line 74: re.finditer over the statement (the string the iterator was made
\* from: later replacements do not change what it finds).  One record per
\* match: group(0), group(1) with its back quotes, group(2).
RECURSIVE DatetimeColsFrom(_, _)
DatetimeColsFrom(s, i) ==
    IF i > Len(s) THEN <<>>
    ELSE LET ws == RunLen(s, i + 1, "space")
             ty == i + 1 + ws
             rest == RunLen(s, ty + 1, "coldef")
             hit == /\ s[i] \in BackquotedToks
                    /\ ws > 0
                    /\ ty <= Len(s)
                    /\ s[ty] \in TemporalTypeToks
                    /\ rest > 0
         IN IF hit
            THEN <<[col_def |-> SubSeq(s, i, ty + rest),
                    col_name |-> s[i],
                    col_type |-> s[ty]]>> \o DatetimeColsFrom(s, ty + rest + 1)
            ELSE DatetimeColsFrom(s, i + 1)
DatetimeCols(s) == DatetimeColsFrom(s, 1)

\* lines 80-86: the body of the loop, for one match m on the statement so far
HasZeroDate(col_def) ==
    \E k \in 1..Len(col_def) : col_def[k] \in {ZD, ZDT}
HasOnUpdateCurrent(col_def) ==
    /\ Contains(col_def, <<"CURRENT_TIMESTAMP">>)
    /\ Contains(col_def, <<"ON", SP, "UPDATE">>)
FixDatetimeCol(stmt, m) ==
    IF HasZeroDate(m.col_def)
    THEN StrReplace(stmt, m.col_def,
                    <<m.col_name, SP, m.col_type, SP, "DEFAULT", SP, "NULL">>)
    ELSE IF HasOnUpdateCurrent(m.col_def)
    THEN StrReplace(stmt, m.col_def,
                    <<m.col_name, SP, m.col_type, SP, "DEFAULT", SP,
                      "CURRENT_TIMESTAMP">>)
    ELSE stmt

\* lines 75-86: the loop over the matches
RECURSIVE FixDatetimeColsFrom(_, _, _)
FixDatetimeColsFrom(stmt, ms, k) ==
    IF k > Len(ms) THEN stmt
    ELSE FixDatetimeColsFrom(FixDatetimeCol(stmt, ms[k]), ms, k + 1)
FixDatetimeCols(s) == FixDatetimeColsFrom(s, DatetimeCols(s), 1)

\* lines 89-98: the (pattern, replacement) list, in its order
NamePattern(kw) == [lit |-> kw, cls |-> "word", tail |-> <<SP>>]
replacements ==
    << <<Lit(<<"DEFAULT", SP, ZDT>>), <<"DEFAULT", SP, "NULL">> >>,
       <<Lit(<<"DEFAULT", SP, ZD>>), <<"DEFAULT", SP, "NULL">> >>,
       <<Lit(<<"DEFAULT", SP, "CURRENT_TIMESTAMP", SP, "ON", SP, "UPDATE", SP,
               "CURRENT_TIMESTAMP">>), <<"DEFAULT", SP, "CURRENT_TIMESTAMP">> >>,
       <<Lit(<<"ON", SP, "UPDATE", SP, "CURRENT_TIMESTAMP">>), <<>> >>,
       <<NamePattern(<<"CHARACTER", SP, "SET", SP>>), <<>> >>,
       <<NamePattern(<<"COLLATE", SP>>), <<>> >>,
       <<Lit(<<"DEFAULT", SP, "b'0'">>), <<"DEFAULT", SP, "0">> >>,
       <<Lit(<<"DEFAULT", SP, "b'1'">>), <<"DEFAULT", SP, "1">> >> >>

\* lines 100-101: the loop over the list
RECURSIVE ApplyReplacementsFrom(_, _)
ApplyReplacementsFrom(s, k) ==
    IF k > Len(replacements) THEN s
    ELSE ApplyReplacementsFrom(
             ReSub(replacements[k][1], replacements[k][2], s), k + 1)
ApplyReplacements(s) == ApplyReplacementsFrom(s, 1)

\* line 104: re.sub of AUTO_INCREMENT=\d+ and the space after it
AutoIncrementPattern ==
    [lit |-> <<"AUTO_INCREMENT=">>, cls |-> "digit", tail |-> <<SP>>]
RemoveAutoIncrement(s) == ReSub(AutoIncrementPattern, <<>>, s)

_modify_create_table_statement(create_stmt) ==
    RemoveAutoIncrement(
        ApplyReplacements(
            FixDatetimeCols(
                RemoveDefiner(create_stmt))))

(***************************************************************************)
(* The statements the rewriter is run on: every concatenation of at most   *)
(* MaxFrags fragments.  The fragments are the clauses the rewriter looks   *)
(* for, as SHOW CREATE TABLE writes them and in the variations the text of *)
(* a statement allows (another letter case, what follows a clause, a       *)
(* clause cut in two around another one).                                  *)
(***************************************************************************)
Fragments ==
    { <<"[d]", SP, "datetime", SP, "DEFAULT", SP, ZDT>>,
      <<"[d]", SP, "date", SP, "DEFAULT", SP, ZD>>,
      <<"[d]", SP, "date", SP, "default", SP, ZD>>,
      <<"[e]", SP, "timestamp", SP, "NOT", SP, "NULL", SP, "DEFAULT", SP,
        "CURRENT_TIMESTAMP", SP, "ON", SP, "UPDATE", SP, "CURRENT_TIMESTAMP">>,
      <<"[d]", SP, "text", SP, "CHARACTER", SP, "SET", SP, "utf8">>,
      <<"CHARACTER", SP, "SET", SP, "utf8", SP>>,
      <<"CHARACTER", SP>>,
      <<"SET", SP, "utf8", SP>>,
      <<"COLLATE", SP, "utf8_bin">>,
      <<"DEFINER=", "[root]", "@", "[localhost]">>,
      <<"AUTO_INCREMENT=", "7", SP>>,
      <<"DEFAULT", SP, "b'0'">>,
      <<"DEFAULT", SP, "b'1'">>,
      <<SP>>, <<COMMA>>, <<NL>>, <<")">> }

RECURSIVE Statements(_)
Statements(n) ==
    IF n = 0 THEN {<<>>}
    ELSE LET shorter == Statements(n - 1)
         IN shorter \cup {f \o x : f \in Fragments, x \in shorter}

(***************************************************************************)
(* The state.                                                              *)
(*   servers        the MySQL servers: per server, whether it folds table  *)
(*                  names to lower case (lower_case_table_names) and its   *)
(*                  databases                                              *)
(*   self           the source MySQLHandler: its server, whether its       *)
(*                  cursor is set (None before a successful connect), the  *)
(*                  database selected with USE                             *)
(*   dest_handler   the destination MySQLHandler, likewise                 *)
(*   source_db, dest_db   the arguments of migrate_database                *)
(*   before         the servers as they were when the call started         *)
(*   pc             the statement migrate_database is about to execute     *)
(*   tables, index, table_name, create_stmt, rows, columns, i              *)
(*                  the local variables of migrate_database                *)
(*   log            every statement issued, in order, with its outcome     *)
(*   raised         the last exception raised                              *)
(*   outcome        the value returned                                     *)
(*   rw_pc, rw_in, rw_out, rw_again   a run of the rewriter alone          *)
(*   source_panel, dest_panel   the two DatabasePanel objects of the       *)
(*                  MigrationTool: db_handler, the database field and its  *)
(*                  widget state, and how the last test_connection ended   *)
(*   message        the last messagebox shown                              *)
(*   clicks         the number of test_connection calls so far             *)
(*   config         the last databases ConfigManager has saved             *)
(***************************************************************************)
VARIABLES servers, self, dest_handler, source_db, dest_db, before, pc, tables, index,
          table_name, create_stmt, rows, columns, i, log, raised, outcome,
          rw_pc, rw_in, rw_out, rw_again,
          source_panel, dest_panel, message, clicks, config

migrate_vars == <<servers, self, dest_handler, source_db, dest_db, before, pc, tables,
                  index, table_name, create_stmt, rows, columns, i, log,
                  raised, outcome>>
rw_vars == <<rw_pc, rw_in, rw_out, rw_again>>
ui_vars == <<source_panel, dest_panel, message, clicks, config>>
vars == <<migrate_vars, rw_vars, ui_vars>>

(***************************************************************************)
(* The servers, as the statements of migrate_database see them.            *)
(***************************************************************************)
ServerIds == {"A", "B"}
DbNames == {"app", "copy"}
\* the names SHOW TABLES can list, in the order it lists them
TableNames == <<"T", "t", "u", "v">>

NoDb == [exists |-> FALSE, tables |-> <<>>]
EmptyDb == [exists |-> TRUE, tables |-> <<>>]

Lower(name) == IF name = "T" THEN "t" ELSE name
\* the name a server stores and looks a table up under
Key(srv, name) == IF servers[srv].folds THEN Lower(name) ELSE name

\* SHOW CREATE TABLE of a table of the source, line 154
TableDDL(name) ==
    <<"CREATE", SP, "TABLE", SP, Quote(name), SP, "(", NL,
      SP, "[d]", SP, "datetime", SP, "NOT", SP, "NULL", SP, "DEFAULT", SP, ZDT,
      COMMA, NL,
      SP, "[e]", SP, "text", SP, "CHARACTER", SP, "SET", SP, "utf8", SP,
      "NOT", SP, "NULL", NL,
      ")", SP, "ENGINE=InnoDB", SP, "AUTO_INCREMENT=", "7", SP,
      "DEFAULT", SP, "CHARSET=utf8">>

\* the table a CREATE TABLE statement names
StmtTable(stmt) == Unquote(stmt[5])

\* SHOW TABLES of a database
Listing(db) == SelectSeq(TableNames, LAMBDA n : n \in DOMAIN db.tables)

Table(name, ddl, rws, origin) ==
    [name |-> name, ddl |-> ddl, cols |-> <<"d", "e">>, rows |-> rws,
     origin |-> origin]

(***************************************************************************)
(* Errors.  A driver error is a mysql.connector.Error with its errno, its  *)
(* SQLSTATE and its message; str(err) is "errno (sqlstate): msg".          *)
(***************************************************************************)
DriverError(errno, sqlstate, msg) ==
    [kind |-> "mysql.connector.Error", errno |-> errno, sqlstate |-> sqlstate,
     msg |-> msg]
OtherError(type, msg) ==
    [kind |-> type, errno |-> -1, sqlstate |-> "", msg |-> msg]
NoError == [kind |-> "none", errno |-> 0, sqlstate |-> "", msg |-> <<>>]

str(e) ==
    IF e.kind = "mysql.connector.Error"
    THEN <<ToString(e.errno), " (", e.sqlstate, "): ">> \o e.msg
    ELSE e.msg

\* what the servers and the network may answer a statement with
DriverErrors ==
    { DriverError(1067, "42000", <<"Invalid default value for 'd'">>),
      DriverError(1146, "42S02", <<"Table 'app.T' doesn't exist">>),
      DriverError(1045, "28000", <<"Access denied for user 'root'">>),
      DriverError(1227, "42000", <<"Access denied; you need the SUPER privilege">>),
      DriverError(2013, "HY000", <<"Lost connection to MySQL server during query">>),
      \* a table named t1067, a key value 1146
      DriverError(1146, "42S02", <<"Table 'app.t", "1067", "' doesn't exist">>),
      DriverError(1062, "23000", <<"Duplicate entry '", "1146", "' for key 'PRIMARY'">>) }
\* the statements a server answers with each of them: an invalid default to
\* a CREATE TABLE, a missing table to a statement that names a table, a
\* duplicate key to an INSERT, the others to any statement
MayAnswer(p, err) ==
    CASE err.errno = 1067 -> p = "create_table"
      [] err.errno = 1146 -> p \in {"show_create_table", "select",
                                    "show_columns", "insert"}
      [] err.errno = 1062 -> p = "insert"
      [] OTHER -> TRUE
TableExists(name) ==
    DriverError(1050, "42S01", <<"Table '", name, "' already exists">>)
UnknownDatabase(name) ==
    DriverError(1049, "42000", <<"Unknown database '", name, "'">>)
DatabaseExists(name) ==
    DriverError(1007, "HY000", <<"Can't create database '", name, "'; database exists">>)
NoSuchTable(name) ==
    DriverError(1146, "42S02", <<"Table '", name, "' doesn't exist">>)
AttributeError ==
    OtherError("AttributeError", <<"'NoneType' object has no attribute 'execute'">>)
OtherErrors ==
    { OtherError("UnicodeDecodeError", <<"'utf-8' codec can't decode byte">>) }

(***************************************************************************)
(* migrate_database, src/database.py:121-202.                              *)
(***************************************************************************)
\* After without lines 141-142: the destination database is used as found.
AfterWithoutReset(p) ==
    CASE p = "set_src_mode" -> "set_src_tz"
      [] p = "set_src_tz" -> "set_dst_mode"
      [] p = "set_dst_mode" -> "set_dst_tz"
      [] p = "set_dst_tz" -> "use_source"
      [] p = "use_source" -> "show_tables"
      [] p = "show_tables" -> "loop"

\* The statements of lines 135-147 in program order: what follows each.
After(p) ==
    CASE p = "set_src_mode" -> "set_src_tz"
      [] p = "set_src_tz" -> "set_dst_mode"
      [] p = "set_dst_mode" -> "set_dst_tz"
      [] p = "set_dst_tz" -> "drop_database"
      [] p = "drop_database" -> "create_database"
      [] p = "create_database" -> "use_source"
      [] p = "use_source" -> "show_tables"
      [] p = "show_tables" -> "loop"

SourcePcs == {"set_src_mode", "set_src_tz", "use_source", "show_tables",
              "show_create_table", "select", "show_columns"}
DestPcs == {"set_dst_mode", "set_dst_tz", "drop_database", "create_database",
            "use_dest", "create_table", "insert", "commit"}
StatementPcs == SourcePcs \cup DestPcs

\* the handler whose cursor (or connection) the statement at pc goes through
Conn == IF pc \in SourcePcs THEN "source" ELSE "dest"
Handler == IF pc \in SourcePcs THEN self ELSE dest_handler

SourceDb == servers[self.server].dbs[self.use]
DestDb == servers[dest_handler.server].dbs[dest_handler.use]

\* Batch with a slice one row short: rows[i:i + batch_size - 1]
BatchOneShort(rws, from) ==
    SubSeq(rws, from + 1, Min(from + batch_size - 1, Len(rws)))

\* line 182: rows[i:i + batch_size]
Batch(rws, from) == SubSeq(rws, from + 1, Min(from + batch_size, Len(rws)))

\* the statement about to be executed, as the log records it
Statement ==
    [conn |-> Conn,
     op |-> pc,
     arg |-> CASE pc \in {"drop_database", "create_database", "use_dest"}
                    -> dest_db
               [] pc = "use_source" -> source_db
               [] pc \in {"show_create_table", "select", "show_columns",
                          "insert"} -> table_name
               [] pc = "create_table" -> StmtTable(create_stmt)
               [] OTHER -> "",
     rows |-> IF pc = "insert" THEN Batch(rows, i) ELSE <<>>]
\* the log with that statement and its outcome: the errno raised (0: none,
\* -1: an exception that is no driver error) and the rows a SELECT fetched
Issued(err) ==
    Append(log, [stmt |-> Statement,
                 errno |-> err.errno,
                 result |-> IF pc = "select" /\ err = NoError
                            THEN SourceDb.tables[table_name].rows
                            ELSE <<>>])

\* PassedAtCreate with no error passed over
PassedAtCreateNever(err) == FALSE

\* PassedAtCreate with every driver error passed over
PassedAtCreateAlways(err) == err.kind = "mysql.connector.Error"

\* lines 164-168: the except clause around the CREATE TABLE
PassedAtCreate(err) ==
    /\ err.kind = "mysql.connector.Error"
    /\ err.errno = 1050

\* lines 190-200: the message of a driver error
ClassifyDriverError(error_msg) ==
    IF Contains(error_msg, <<"1067">>)
    THEN <<"Migration failed: Invalid default value detected. Error: ">>
         \o error_msg
    ELSE IF Contains(error_msg, <<"1146">>)
    THEN <<"Migration failed: Table not found. Error: ">> \o error_msg
    ELSE IF Contains(error_msg, <<"1045">>)
    THEN <<"Migration failed: Access denied. Please check permissions. Error: ">>
         \o error_msg
    ELSE IF Contains(error_msg, <<"1227">>)
    THEN <<"Migration failed: This operation requires elevated privileges. Please use a user with appropriate permissions. Error: ">>
         \o error_msg
    ELSE <<"Migration failed: ">> \o error_msg

\* ExceptClause without the clause of line 201
ExceptClauseDriverOnly(err) ==
    IF err.kind = "mysql.connector.Error" THEN "mysql.connector.Error"
    ELSE "none"

\* lines 189, 201: the except clause of the outer try that takes err, if any
ExceptClause(err) ==
    IF err.kind = "mysql.connector.Error" THEN "mysql.connector.Error"
    ELSE IF err.kind \in {"AttributeError", "UnicodeDecodeError", "TypeError"}
    THEN "Exception"
    ELSE "none"

\* lines 189-202: what the call returns for an exception the outer try takes
Failure(err) ==
    IF ExceptClause(err) = "mysql.connector.Error"
    THEN [ok |-> FALSE, msg |-> ClassifyDriverError(str(err))]
    ELSE [ok |-> FALSE,
          msg |-> <<"Migration failed: Unexpected error: ">> \o str(err)]

\* line 187
Success(total_tables) ==
    [ok |-> TRUE,
     msg |-> <<"Migration completed successfully. Migrated ",
               ToString(total_tables), " tables.">>]
NoOutcome == [ok |-> FALSE, msg |-> <<>>]

\* An exception raised by the statement at pc: passed over at the CREATE
\* TABLE (lines 164-166), or taken by the outer try, which returns.
Throw(err) ==
    /\ raised' = err
    /\ IF pc = "create_table" /\ PassedAtCreate(err)
       THEN pc' = "select" /\ outcome' = outcome
       ELSE IF ExceptClause(err) = "none"
       THEN pc' = "escaped" /\ outcome' = outcome
       ELSE pc' = "done" /\ outcome' = Failure(err)

\* the statement at pc is executed without an error
Ok(next) ==
    /\ log' = Issued(NoError)
    /\ pc' = next
    /\ UNCHANGED <<raised, outcome>>

\* HasNext of a loop that stops one table early
HasNextButLast == index < Len(tables) - 1

\* line 150: the loop has another table to go to
HasNext == index < Len(tables)

(***************************************************************************)
(* The initial states: a source database "app" on server A with up to      *)
(* MaxTables tables; a destination handler on the same server or on        *)
(* server B, which may fold table names; a destination database that does  *)
(* not exist yet or holds tables of an earlier use; handlers that were     *)
(* connected or not.                                                       *)
(***************************************************************************)
RowCounts == {0, batch_size, MaxRows}
RowsOf(count) == [k \in 1..count |-> k]

SourceTables(n, counts) ==
    [nm \in {TableNames[k] : k \in 1..n} |->
        LET k == CHOOSE k \in 1..n : TableNames[k] = nm
        IN Table(nm, TableDDL(nm), RowsOf(counts[k]), "source")]

\* what an earlier use left in the destination database
EarlierTables(fold) ==
    LET key == IF fold THEN "t" ELSE "T"
    IN [nm \in {key, "old"} |-> Table(nm, <<"CREATE">>, <<0>>, "earlier")]

locals == <<tables, index, table_name, create_stmt, rows, columns, i>>
call == <<source_db, dest_db, before>>
handlers == <<self, dest_handler>>

RwIdle ==
    /\ rw_pc = "off"
    /\ rw_in = <<>>
    /\ rw_out = <<>>
    /\ rw_again = <<>>

(***************************************************************************)
(* The panels of the MigrationTool (ui.py).                                *)
(***************************************************************************)
\* Optional[MySQLHandler]: None, or the one handler object
None == <<>>
\* ui.py line 76, database.py lines 6-8: a new handler, connection and
\* cursor None
MySQLHandler == [server |-> "none", cursor |-> FALSE, use |-> ""]
\* database.py lines 24-35: the handler after connect succeeded on host
Connected(host) == [server |-> host, cursor |-> TRUE, use |-> ""]

\* ui.py lines 8-61: a panel as constructed: no handler, the database field
\* disabled and holding the last database of the saved configuration
DatabasePanel(is_source, last_database) ==
    [is_source |-> is_source,
     db_handler |-> None,
     state |-> "disabled",
     values |-> IF is_source /\ last_database # "" THEN {last_database} ELSE {},
     db |-> last_database,
     last_test |-> "none"]

\* what port_entry can hold, character by character
PortDigits == {"0", "1", "2", "3", "4", "5", "6", "7", "8", "9"}
PortEntries == {<<"3", "3", "0", "6">>, <<"3", "3", "o", "6">>, <<>>}
\* ui.py line 79: int() of the port entry returns (TRUE) or raises ValueError
IntParses(port) ==
    /\ Len(port) > 0
    /\ \A k \in 1..Len(port) : port[k] \in PortDigits

\* database.py lines 46-50: get_databases, SHOW DATABASES on the server
get_databases(handler) ==
    IF ~handler.cursor THEN {}
    ELSE {d \in DbNames : servers[handler.server].dbs[d].exists}

\* ui.py lines 74-100: the panel after test_connection, for a port entry, a
\* host and a connect that succeeds or fails with a driver error
test_connection(panel, port, host, success) ==
    IF ~IntParses(port)
    THEN [panel EXCEPT !.db_handler = <<MySQLHandler>>,
                       !.last_test = "invalid port"]
    ELSE IF success
    THEN [panel EXCEPT !.db_handler = <<Connected(host)>>,
                       !.values = IF panel.is_source
                                  THEN get_databases(Connected(host)) ELSE @,
                       !.state = IF panel.is_source THEN "readonly"
                                 ELSE "normal",
                       !.last_test = "succeeded"]
    ELSE [panel EXCEPT !.db_handler = None,
                       !.state = "disabled",
                       !.last_test = "failed"]

\* the state of the panels when no MigrationTool is modelled
UiIdle ==
    /\ source_panel = DatabasePanel(TRUE, "")
    /\ dest_panel = DatabasePanel(FALSE, "")
    /\ message = ""
    /\ clicks = 0
    /\ config = [source |-> "", destination |-> ""]

Init ==
    /\ \E n \in 0..MaxTables, dsrv \in ServerIds, ddb \in DbNames,
          earlier \in BOOLEAN, fold \in BOOLEAN, sc \in BOOLEAN, dc \in BOOLEAN :
         \E counts \in [1..n -> RowCounts] :
            /\ fold => dsrv = "B"
            /\ earlier => <<dsrv, ddb>> # <<"A", "app">>
            /\ servers =
                 [s \in ServerIds |->
                    [folds |-> (s = "B" /\ fold),
                     dbs |-> [d \in DbNames |->
                        IF s = "A" /\ d = "app"
                        THEN [exists |-> TRUE, tables |-> SourceTables(n, counts)]
                        ELSE IF s = dsrv /\ d = ddb /\ earlier
                        THEN [exists |-> TRUE, tables |-> EarlierTables(fold)]
                        ELSE NoDb]]]
            /\ self = [server |-> "A", cursor |-> sc, use |-> ""]
            /\ dest_handler = [server |-> dsrv, cursor |-> dc, use |-> ""]
            /\ source_db = "app"
            /\ dest_db = ddb
    /\ before = servers
    /\ pc = "set_src_mode"
    /\ tables = <<>>
    /\ index = 0
    /\ table_name = ""
    /\ create_stmt = <<>>
    /\ rows = <<>>
    /\ columns = <<>>
    /\ i = 0
    /\ log = <<>>
    /\ raised = NoError
    /\ outcome = NoOutcome
    /\ RwIdle
    /\ UiIdle

\* lines 135-138: SET SESSION sql_mode, time_zone on both connections
SetSession ==
    /\ pc \in {"set_src_mode", "set_src_tz", "set_dst_mode", "set_dst_tz"}
    /\ Handler.cursor
    /\ Ok(After(pc))
    /\ UNCHANGED <<servers, handlers, call, locals, rw_vars, ui_vars>>

\* line 141: DROP DATABASE IF EXISTS dest_db
DropDatabase ==
    /\ pc = "drop_database"
    /\ Handler.cursor
    /\ servers' = [servers EXCEPT ![dest_handler.server].dbs[dest_db] = NoDb]
    /\ Ok(After(pc))
    /\ UNCHANGED <<handlers, call, locals, rw_vars, ui_vars>>

\* line 142: CREATE DATABASE dest_db
CreateDatabase ==
    /\ pc = "create_database"
    /\ Handler.cursor
    /\ IF servers[dest_handler.server].dbs[dest_db].exists
       THEN /\ log' = Issued(DatabaseExists(dest_db))
            /\ Throw(DatabaseExists(dest_db))
            /\ UNCHANGED servers
       ELSE /\ servers' =
                 [servers EXCEPT ![dest_handler.server].dbs[dest_db] = EmptyDb]
            /\ Ok(After(pc))
    /\ UNCHANGED <<handlers, call, locals, rw_vars, ui_vars>>

\* line 145: USE source_db
UseSource ==
    /\ pc = "use_source"
    /\ Handler.cursor
    /\ IF servers[self.server].dbs[source_db].exists
       THEN /\ self' = [self EXCEPT !.use = source_db]
            /\ Ok(After(pc))
       ELSE /\ log' = Issued(UnknownDatabase(source_db))
            /\ Throw(UnknownDatabase(source_db))
            /\ UNCHANGED self
    /\ UNCHANGED <<servers, dest_handler, call, locals, rw_vars, ui_vars>>

\* lines 146-149: SHOW TABLES, fetchall
ShowTables ==
    /\ pc = "show_tables"
    /\ Handler.cursor
    /\ tables' = Listing(SourceDb)
    /\ index' = 0
    /\ Ok(After(pc))
    /\ UNCHANGED <<servers, handlers, call, table_name, create_stmt, rows,
                   columns, i, rw_vars, ui_vars>>

\* lines 150-151: the next table of the listing
NextTable ==
    /\ pc = "loop"
    /\ HasNext
    /\ index' = index + 1
    /\ table_name' = tables[index + 1]
    /\ pc' = "show_create_table"
    /\ UNCHANGED <<servers, handlers, call, tables, create_stmt, rows, columns,
                   i, log, raised, outcome, rw_vars, ui_vars>>

\* lines 154-158: SHOW CREATE TABLE, fetchone, the rewriter
ShowCreateTable ==
    /\ pc = "show_create_table"
    /\ Handler.cursor
    /\ IF table_name \in DOMAIN SourceDb.tables
       THEN /\ create_stmt' =
                 _modify_create_table_statement(SourceDb.tables[table_name].ddl)
            /\ Ok("use_dest")
       ELSE /\ log' = Issued(NoSuchTable(table_name))
            /\ Throw(NoSuchTable(table_name))
            /\ UNCHANGED create_stmt
    /\ UNCHANGED <<servers, handlers, call, tables, index, table_name, rows,
                   columns, i, rw_vars, ui_vars>>

\* line 161: USE dest_db
UseDest ==
    /\ pc = "use_dest"
    /\ Handler.cursor
    /\ IF servers[dest_handler.server].dbs[dest_db].exists
       THEN /\ dest_handler' = [dest_handler EXCEPT !.use = dest_db]
            /\ Ok("create_table")
       ELSE /\ log' = Issued(UnknownDatabase(dest_db))
            /\ Throw(UnknownDatabase(dest_db))
            /\ UNCHANGED dest_handler
    /\ UNCHANGED <<servers, self, call, locals, rw_vars, ui_vars>>

\* lines 162-168: the rewritten CREATE TABLE on the destination; the server
\* answers 1050 when it has a table under that name
CreateTable ==
    /\ pc = "create_table"
    /\ Handler.cursor
    /\ LET name == StmtTable(create_stmt)
           key == Key(dest_handler.server, name)
       IN IF key \in DOMAIN DestDb.tables
          THEN /\ log' = Issued(TableExists(name))
               /\ Throw(TableExists(name))
               /\ UNCHANGED servers
          ELSE /\ servers' =
                    [servers EXCEPT
                       ![dest_handler.server].dbs[dest_handler.use].tables =
                          (key :> Table(name, create_stmt, <<>>, "run")) @@ @]
               /\ Ok("select")
    /\ UNCHANGED <<handlers, call, locals, rw_vars, ui_vars>>

\* lines 171-174: SELECT * FROM table_name, fetchall, if rows
SelectRows ==
    /\ pc = "select"
    /\ Handler.cursor
    /\ IF table_name \in DOMAIN SourceDb.tables
       THEN /\ rows' = SourceDb.tables[table_name].rows
            /\ Ok(IF rows' # <<>> THEN "show_columns" ELSE "loop")
       ELSE /\ log' = Issued(NoSuchTable(table_name))
            /\ Throw(NoSuchTable(table_name))
            /\ UNCHANGED rows
    /\ UNCHANGED <<servers, handlers, call, tables, index, table_name,
                   create_stmt, columns, i, rw_vars, ui_vars>>

\* lines 176-181: SHOW COLUMNS, the placeholders, the first batch offset
ShowColumns ==
    /\ pc = "show_columns"
    /\ Handler.cursor
    /\ columns' = SourceDb.tables[table_name].cols
    /\ i' = 0
    /\ Ok("insert")
    /\ UNCHANGED <<servers, handlers, call, tables, index, table_name,
                   create_stmt, rows, rw_vars, ui_vars>>

\* lines 182-184: executemany of one batch
InsertBatch ==
    /\ pc = "insert"
    /\ Handler.cursor
    /\ LET key == Key(dest_handler.server, table_name)
       IN IF key \in DOMAIN DestDb.tables
          THEN /\ servers' =
                    [servers EXCEPT
                       ![dest_handler.server].dbs[dest_handler.use].tables[key].rows =
                          @ \o Batch(rows, i)]
               /\ Ok("commit")
          ELSE /\ log' = Issued(NoSuchTable(table_name))
               /\ Throw(NoSuchTable(table_name))
               /\ UNCHANGED servers
    /\ UNCHANGED <<handlers, call, locals, rw_vars, ui_vars>>

\* lines 185, 181: commit, then the next batch offset of range()
Commit ==
    /\ pc = "commit"
    /\ Handler.cursor
    /\ i' = i + batch_size
    /\ Ok(IF i' < Len(rows) THEN "insert" ELSE "loop")
    /\ UNCHANGED <<servers, handlers, call, tables, index, table_name,
                   create_stmt, rows, columns, rw_vars, ui_vars>>

\* line 187: the loop is over
ReturnSuccess ==
    /\ pc = "loop"
    /\ ~HasNext
    /\ pc' = "done"
    /\ outcome' = Success(Len(tables))
    /\ UNCHANGED <<servers, handlers, call, locals, log, raised, rw_vars, ui_vars>>

\* the statement at pc fails with a driver error
StatementFails ==
    /\ pc \in StatementPcs
    /\ Handler.cursor
    /\ \E err \in DriverErrors :
          /\ MayAnswer(pc, err)
          /\ log' = Issued(err)
          /\ Throw(err)
    /\ UNCHANGED <<servers, handlers, call, locals, rw_vars, ui_vars>>

\* the statement at pc fails with another exception
StatementBreaks ==
    /\ pc \in StatementPcs
    /\ Handler.cursor
    /\ \E err \in OtherErrors :
          /\ log' = Issued(err)
          /\ Throw(err)
    /\ UNCHANGED <<servers, handlers, call, locals, rw_vars, ui_vars>>

\* the handler was never connected: its cursor is None (line 8)
CursorIsNone ==
    /\ pc \in StatementPcs
    /\ ~Handler.cursor
    /\ Throw(AttributeError)
    /\ UNCHANGED <<servers, handlers, call, locals, log, rw_vars, ui_vars>>

Next ==
    \/ SetSession
    \/ DropDatabase
    \/ CreateDatabase
    \/ UseSource
    \/ ShowTables
    \/ NextTable
    \/ ShowCreateTable
    \/ UseDest
    \/ CreateTable
    \/ SelectRows
    \/ ShowColumns
    \/ InsertBatch
    \/ Commit
    \/ ReturnSuccess
    \/ StatementFails
    \/ StatementBreaks
    \/ CursorIsNone

Spec == Init /\ [][Next]_vars

(***************************************************************************)
(* The rewriter run alone, once and then on its own output.                *)
(***************************************************************************)
InitRewrite ==
    /\ rw_pc = "ready"
    /\ rw_in \in Statements(MaxFrags)
    /\ rw_out = <<>>
    /\ rw_again = <<>>
    /\ servers = [s \in ServerIds |-> [folds |-> FALSE, dbs |-> [d \in DbNames |-> NoDb]]]
    /\ before = servers
    /\ self = [server |-> "A", cursor |-> FALSE, use |-> ""]
    /\ dest_handler = [server |-> "B", cursor |-> FALSE, use |-> ""]
    /\ source_db = "app"
    /\ dest_db = "copy"
    /\ pc = "off"
    /\ tables = <<>>
    /\ index = 0
    /\ table_name = ""
    /\ create_stmt = <<>>
    /\ rows = <<>>
    /\ columns = <<>>
    /\ i = 0
    /\ log = <<>>
    /\ raised = NoError
    /\ outcome = NoOutcome
    /\ UiIdle

Rewrite ==
    /\ rw_pc = "ready"
    /\ rw_out' = _modify_create_table_statement(rw_in)
    /\ rw_pc' = "once"
    /\ UNCHANGED <<rw_in, rw_again, migrate_vars, ui_vars>>

RewriteAgain ==
    /\ rw_pc = "once"
    /\ rw_again' = _modify_create_table_statement(rw_out)
    /\ rw_pc' = "twice"
    /\ UNCHANGED <<rw_in, rw_out, migrate_vars, ui_vars>>

NextRewrite ==
    \/ Rewrite
    \/ RewriteAgain

SpecRewrite == InitRewrite /\ [][NextRewrite]_vars

(***************************************************************************)
(* The MigrationTool: the user tests connections, fills the database       *)
(* fields and starts migrations.  Tk runs one callback at a time, and      *)
(* migrate_database runs inside the start_migration callback.              *)
(***************************************************************************)
\* the source database of the tool: one table of one full batch
UiServers ==
    [s \in ServerIds |->
       [folds |-> FALSE,
        dbs |-> [d \in DbNames |->
           IF s = "A" /\ d = "app"
           THEN [exists |-> TRUE,
                 tables |-> SourceTables(1, <<batch_size>>)]
           ELSE NoDb]]]

\* ui.py lines 103-161: the tool as constructed from the loaded configuration
InitUI ==
    /\ \E src \in {"", "app"}, dst \in {"", "copy"} :
          /\ config = [source |-> src, destination |-> dst]
          /\ source_panel = DatabasePanel(TRUE, src)
          /\ dest_panel = DatabasePanel(FALSE, dst)
    /\ message = ""
    /\ clicks = 0
    /\ servers = UiServers
    /\ before = servers
    /\ self = MySQLHandler
    /\ dest_handler = MySQLHandler
    /\ source_db = ""
    /\ dest_db = ""
    /\ pc = "idle"
    /\ tables = <<>>
    /\ index = 0
    /\ table_name = ""
    /\ create_stmt = <<>>
    /\ rows = <<>>
    /\ columns = <<>>
    /\ i = 0
    /\ log = <<>>
    /\ raised = NoError
    /\ outcome = NoOutcome
    /\ RwIdle

\* ui.py lines 74-100: the Test Connection button of a panel
TestConnection ==
    /\ pc = "idle"
    /\ clicks < MaxClicks
    /\ clicks' = clicks + 1
    /\ \E is_source \in BOOLEAN, port \in PortEntries, host \in ServerIds,
          success \in BOOLEAN :
          /\ IF is_source
             THEN /\ source_panel' =
                       test_connection(source_panel, port, host, success)
                  /\ UNCHANGED dest_panel
             ELSE /\ dest_panel' =
                       test_connection(dest_panel, port, host, success)
                  /\ UNCHANGED source_panel
          /\ message' = IF ~IntParses(port)
                        THEN "Please enter a valid port number"
                        ELSE IF success THEN "Connection successful"
                        ELSE "Error: "
    /\ UNCHANGED <<migrate_vars, rw_vars, config>>

\* the user picks a database in the combobox of the source panel
SelectDatabase ==
    /\ pc = "idle"
    /\ source_panel.state = "readonly"
    /\ \E d \in source_panel.values :
          /\ d # source_panel.db
          /\ source_panel' = [source_panel EXCEPT !.db = d]
    /\ UNCHANGED <<dest_panel, message, clicks, config, migrate_vars, rw_vars>>

\* the user types a name in the entry of the destination panel
EnterDatabase ==
    /\ pc = "idle"
    /\ dest_panel.state = "normal"
    /\ \E d \in DbNames \cup {""} :
          /\ d # dest_panel.db
          /\ dest_panel' = [dest_panel EXCEPT !.db = d]
    /\ UNCHANGED <<source_panel, message, clicks, config, migrate_vars, rw_vars>>

\* ui.py lines 203-207: the call of migrate_database
CallMigrate ==
    /\ self' = source_panel.db_handler[1]
    /\ dest_handler' = dest_panel.db_handler[1]
    /\ source_db' = source_panel.db
    /\ dest_db' = dest_panel.db
    /\ before' = servers
    /\ pc' = "set_src_mode"
    /\ tables' = <<>>
    /\ index' = 0
    /\ table_name' = ""
    /\ create_stmt' = <<>>
    /\ rows' = <<>>
    /\ columns' = <<>>
    /\ i' = 0
    /\ log' = <<>>
    /\ raised' = NoError
    /\ outcome' = NoOutcome
    /\ UNCHANGED servers

\* ui.py lines 185-207: the Start Migration button, up to the call
StartMigration ==
    /\ pc = "idle"
    /\ \E yes \in BOOLEAN :
          IF source_panel.db_handler = None \/ dest_panel.db_handler = None
          THEN /\ message' = "Please test both connections first"
               /\ UNCHANGED migrate_vars
          ELSE IF source_panel.db = ""
          THEN /\ message' = "Please select a source database"
               /\ UNCHANGED migrate_vars
          ELSE IF dest_panel.db = ""
          THEN /\ message' = "Please enter a destination database name"
               /\ UNCHANGED migrate_vars
          ELSE /\ message' = "Confirm Migration"
               /\ IF yes THEN CallMigrate ELSE UNCHANGED migrate_vars
    /\ UNCHANGED <<source_panel, dest_panel, clicks, config, rw_vars>>

\* ui.py lines 209-214: migrate_database has returned and its frame is gone;
\* the handlers keep the database their connections selected, and a success
\* saves the fields
FinishMigration ==
    /\ pc = "done"
    /\ pc' = "idle"
    /\ message' = IF outcome.ok THEN "Success" ELSE "Error"
    /\ config' = IF outcome.ok
                 THEN [source |-> source_panel.db, destination |-> dest_panel.db]
                 ELSE config
    /\ source_panel' = [source_panel EXCEPT !.db_handler = <<self>>]
    /\ dest_panel' = [dest_panel EXCEPT !.db_handler = <<dest_handler>>]
    /\ self' = MySQLHandler
    /\ dest_handler' = MySQLHandler
    /\ source_db' = ""
    /\ dest_db' = ""
    /\ before' = servers
    /\ tables' = <<>>
    /\ index' = 0
    /\ table_name' = ""
    /\ create_stmt' = <<>>
    /\ rows' = <<>>
    /\ columns' = <<>>
    /\ i' = 0
    /\ log' = <<>>
    /\ raised' = NoError
    /\ outcome' = NoOutcome
    /\ UNCHANGED <<servers, clicks, rw_vars>>

NextUI ==
    \/ TestConnection
    \/ SelectDatabase
    \/ EnterDatabase
    \/ StartMigration
    \/ FinishMigration
    \/ Next

SpecUI == InitUI /\ [][NextUI]_vars

(***************************************************************************)
(* Properties of migrate_database.                                         *)
(***************************************************************************)
Succeeded == pc = "done" /\ outcome.ok
Failed == pc = "done" /\ ~outcome.ok

\* the destination database, and what it was when the call started
Destination == servers[dest_handler.server].dbs[dest_db]
DestinationBefore == before[dest_handler.server].dbs[dest_db]
SameDatabase == dest_handler.server = self.server /\ dest_db = source_db

LogIndex == 1..Len(log)
IsOp(k, op) == log[k].stmt.op = op
Passed(k) == IsOp(k, "create_table") /\ log[k].errno = 1050

\* C1: the destination database is dropped and then created before any
\* CREATE TABLE or INSERT is issued on the destination connection, and after
\* a successful run it holds only tables this run created, none of those it
\* held before the call.
C1_DestinationReset ==
    /\ \A k \in LogIndex :
          (IsOp(k, "create_table") \/ IsOp(k, "insert")) =>
             \E a, b \in 1..(k - 1) :
                /\ a < b
                /\ IsOp(a, "drop_database")
                /\ log[a].stmt.arg = dest_db
                /\ log[a].errno = 0
                /\ IsOp(b, "create_database")
                /\ log[b].stmt.arg = dest_db
                /\ log[b].errno = 0
    /\ Succeeded =>
          /\ Destination.exists
          /\ \A key \in DOMAIN Destination.tables :
                Destination.tables[key].origin = "run"

\* C1 witness: a successful run into a database that held tables of an
\* earlier use, with tables created in it.
C1_Witness ==
    /\ Succeeded
    /\ ~SameDatabase
    /\ DestinationBefore.exists
    /\ DOMAIN DestinationBefore.tables # {}
    /\ DOMAIN Destination.tables # {}

\* the entries of the log that insert into table nm, in order
Inserts(nm) ==
    SelectSeq(log, LAMBDA e : e.stmt.op = "insert" /\ e.stmt.arg = nm)
\* the rows the SELECT of table nm fetched
Fetched(nm) ==
    LET k == CHOOSE k \in LogIndex :
                 IsOp(k, "select") /\ log[k].stmt.arg = nm /\ log[k].errno = 0
    IN log[k].result
WasFetched(nm) ==
    \E k \in LogIndex :
       IsOp(k, "select") /\ log[k].stmt.arg = nm /\ log[k].errno = 0

RECURSIVE ConcatRows(_, _)
ConcatRows(entries, k) ==
    IF k > Len(entries) THEN <<>>
    ELSE entries[k].stmt.rows \o ConcatRows(entries, k + 1)

\* the tables of the listing the loop is through with
Processed ==
    {tables[k] : k \in {k \in 1..Len(tables) :
                           \/ k < index
                           \/ k = index /\ pc = "loop"
                           \/ Succeeded}}

NoErrorRaised == \A k \in LogIndex : log[k].errno = 0

\* C2: a table with R > 0 fetched rows is inserted in exactly ceil(R/1000)
\* batches of at most 1000 rows, all but the last of exactly 1000, that are
\* consecutive slices of the fetched rows, each followed by a commit before
\* the next; a table with no rows gets no insert and no commit; and with no
\* error the destination table has as many rows as the source table.
C2_Batches ==
    /\ \A nm \in Processed :
          LET ins == Inserts(nm)
              R == Len(Fetched(nm))
          IN /\ WasFetched(nm)
             /\ Len(ins) = (R + batch_size - 1) \div batch_size
             /\ \A j \in 1..Len(ins) :
                   /\ ins[j].errno = 0
                   /\ Len(ins[j].stmt.rows) <= batch_size
                   /\ j < Len(ins) => Len(ins[j].stmt.rows) = batch_size
             /\ ConcatRows(ins, 1) = Fetched(nm)
    /\ \A k \in LogIndex :
          /\ (IsOp(k, "insert") /\ log[k].errno = 0) =>
                IF k = Len(log) THEN pc = "commit" ELSE IsOp(k + 1, "commit")
          /\ IsOp(k, "commit") =>
                k > 1 /\ IsOp(k - 1, "insert") /\ log[k - 1].errno = 0
    /\ (Succeeded /\ NoErrorRaised) =>
          \A k \in 1..Len(tables) :
             LET key == Key(dest_handler.server, tables[k])
             IN /\ key \in DOMAIN Destination.tables
                /\ Len(Destination.tables[key].rows)
                      = Len(before[self.server].dbs[source_db].tables[tables[k]].rows)

\* C2 witness: a successful run without any error that copied a table of
\* more than two batches and a table of no rows.
C2_Witness ==
    /\ Succeeded
    /\ NoErrorRaised
    /\ \E nm \in Processed : Len(Inserts(nm)) > 2
    /\ \E nm \in Processed : Fetched(nm) = <<>>

\* the place of table nm in the listing
Position(nm) == CHOOSE j \in 1..Len(tables) : tables[j] = nm

CreateFailed(k) ==
    /\ IsOp(k, "create_table")
    /\ log[k].errno > 0
    /\ log[k].errno # 1050

\* C4: when the CREATE TABLE of a table fails with a driver error other than
\* 1050, no further statement is issued on either connection and the call
\* returns (False, message) with the text of that error in the message.
C4_OtherCreateErrorAborts ==
    \A k \in LogIndex :
       CreateFailed(k) =>
          /\ k = Len(log)
          /\ Failed
          /\ raised.errno = log[k].errno
          /\ Contains(outcome.msg, str(raised))

\* C4 witness: the CREATE TABLE of the second table failed that way, after
\* the first table was copied.
C4_Witness ==
    \E k \in LogIndex :
       /\ CreateFailed(k)
       /\ index = 2
       /\ \E j \in 1..k : IsOp(j, "commit")

\* the first token of the message the code comments give each errno
MessageFor(errno) ==
    CASE errno = 1067
           -> "Migration failed: Invalid default value detected. Error: "
      [] errno = 1146 -> "Migration failed: Table not found. Error: "
      [] errno = 1045
           -> "Migration failed: Access denied. Please check permissions. Error: "
      [] errno = 1227
           -> "Migration failed: This operation requires elevated privileges. Please use a user with appropriate permissions. Error: "
      [] OTHER -> "Migration failed: "

\* C5: a driver error is classified by its cause alone: the message of a
\* failed call is the one of the errno raised, followed by the text of the
\* error, whatever other text the error carries.
C5_ClassifiedByCause ==
    (Failed /\ raised.kind = "mysql.connector.Error") =>
       outcome.msg = <<MessageFor(raised.errno)>> \o str(raised)

\* C6: no error leaves migrate_database: a statement that fails, with a
\* driver error or with any other exception, and a handler whose cursor is
\* None, end the call with (False, message); every call that has ended
\* returned (True, message) or (False, message).
C6_NothingEscapes ==
    /\ pc # "escaped"
    /\ pc = "done" => outcome.ok \in BOOLEAN /\ outcome.msg # <<>>
    /\ \A k \in LogIndex :
          (log[k].errno # 0 /\ ~Passed(k)) =>
             /\ k = Len(log)
             /\ Failed
             /\ raised.errno = log[k].errno
    /\ raised.kind \notin {"none", "mysql.connector.Error"} =>
          /\ Failed
          /\ outcome.msg =
                <<"Migration failed: Unexpected error: ">> \o raised.msg
    /\ (~self.cursor /\ pc # "set_src_mode") =>
          /\ Failed
          /\ raised = AttributeError
    /\ (~dest_handler.cursor
          /\ pc \notin {"set_src_mode", "set_src_tz", "set_dst_mode"}) =>
          Failed
    /\ pc \in StatementPcs \cup {"loop", "done"}

\* C6 witness: calls that ended with (False, message) on a handler whose
\* cursor is None.
C6_Witness ==
    /\ Failed
    /\ self.cursor
    /\ ~dest_handler.cursor
    /\ raised = AttributeError
    /\ Len(log) = 2

\* table nm of the listing was created by this run and holds the rows fetched
CreatedAndPopulated(nm) ==
    /\ \E k \in LogIndex :
          IsOp(k, "create_table") /\ log[k].stmt.arg = nm /\ log[k].errno = 0
    /\ WasFetched(nm)
    /\ ConcatRows(Inserts(nm), 1) = Fetched(nm)
\* the same, with a CREATE TABLE that was answered with 1050 counted too
CreatedOrPassedAndPopulated(nm) ==
    /\ \E k \in LogIndex :
          /\ IsOp(k, "create_table")
          /\ log[k].stmt.arg = nm
          /\ log[k].errno \in {0, 1050}
    /\ WasFetched(nm)
    /\ ConcatRows(Inserts(nm), 1) = Fetched(nm)
    /\ \A e \in {Inserts(nm)[j] : j \in 1..Len(Inserts(nm))} : e.errno = 0
    /\ Key(dest_handler.server, nm) \in DOMAIN Destination.tables

Listed == {tables[j] : j \in 1..Len(tables)}
AllEmpty == \A nm \in Listed : Fetched(nm) = <<>>
\* the destination holds one table per listed table, made from the rewritten
\* statement of that table, with the rows fetched from it
OneTablePerListed ==
    /\ Cardinality(DOMAIN Destination.tables) = Len(tables)
    /\ \A nm \in Listed :
          LET key == Key(dest_handler.server, nm)
          IN /\ key \in DOMAIN Destination.tables
             /\ Destination.tables[key].ddl =
                   _modify_create_table_statement(SourceDb.tables[nm].ddl)
             /\ Destination.tables[key].rows = Fetched(nm)

\* C7 as claimed: success is returned only with the count N of the tables
\* listed and with every listed table created and populated; N tables of no
\* rows give N empty tables in the destination.
C7_NoPartialSuccess ==
    Succeeded =>
       /\ outcome = Success(Len(tables))
       /\ tables = Listing(SourceDb)
       /\ \A nm \in Listed : CreatedAndPopulated(nm)
       /\ AllEmpty => OneTablePerListed

\* C7 as amended: success is returned only with the count N of the tables
\* listed and after, for every listed table, the CREATE TABLE succeeded or
\* was answered with 1050 and every row fetched was inserted; when no CREATE
\* TABLE was answered with 1050 the destination holds exactly the N tables,
\* made from the rewritten statements, N empty tables for N tables of no
\* rows.
C7_SuccessAfterAllTables ==
    Succeeded =>
       /\ outcome = Success(Len(tables))
       /\ tables = Listing(SourceDb)
       /\ \A nm \in Listed : CreatedOrPassedAndPopulated(nm)
       /\ (\A k \in LogIndex : ~Passed(k)) =>
             /\ \A nm \in Listed : CreatedAndPopulated(nm)
             /\ OneTablePerListed

\* C7 witness: a successful run over two or more tables of no rows that left
\* as many empty tables in the destination.
C7_Witness ==
    /\ Succeeded
    /\ Len(tables) >= 2
    /\ AllEmpty
    /\ \A k \in LogIndex : ~Passed(k)
    /\ OneTablePerListed

(***************************************************************************)
(* Properties of _modify_create_table_statement.                           *)
(***************************************************************************)
Rewritten == rw_pc \in {"once", "twice"}

\* C8: the rewriter is idempotent: rewriting its output again changes
\* nothing, for every statement.
C8_Idempotent == rw_pc = "twice" => rw_again = rw_out

\* an explicit character-set clause, an explicit collation clause
HasCharacterSet(s) ==
    \E k \in 1..Len(s) :
       /\ LitAt(s, k, <<"CHARACTER", SP, "SET", SP>>)
       /\ RunLen(s, k + 4, "word") > 0
HasCollate(s) ==
    \E k \in 1..Len(s) :
       /\ LitAt(s, k, <<"COLLATE", SP>>)
       /\ RunLen(s, k + 2, "word") > 0

\* C9: the output of the rewriter holds no character-set clause and no
\* collation clause, whatever follows the clause in the input.
C9_NoCharsetNoCollation ==
    Rewritten => ~HasCharacterSet(rw_out) /\ ~HasCollate(rw_out)

\* an all-zero date or datetime literal as a default, in either letter case
\* of the keyword
HasZeroDateDefault(s) ==
    \E k \in 1..Len(s) :
       /\ k + 2 <= Len(s)
       /\ s[k] \in {"DEFAULT", "default"}
       /\ s[k + 1] = SP
       /\ s[k + 2] \in {ZD, ZDT}

\* C10: the output of the rewriter holds no all-zero date or datetime
\* literal as a column default, for date, datetime and timestamp columns and
\* for either letter case of DEFAULT.
C10_NoZeroDateDefault == Rewritten => ~HasZeroDateDefault(rw_out)

(***************************************************************************)
(* Properties of the MigrationTool.                                        *)
(***************************************************************************)
\* migrate_database has been called by start_migration and has not returned
\* to it yet
Invoked == pc # "idle"
Panels == {source_panel, dest_panel}

\* C11: whenever start_migration invokes migrate_database both handlers hold
\* a connection opened by a successful connect, and after any sequence of
\* test_connection attempts a panel's db_handler is not None only if the
\* most recent test_connection of that panel succeeded.
C11_HandlersConnected ==
    /\ Invoked => self.cursor /\ dest_handler.cursor
    /\ \A panel \in Panels :
          panel.db_handler # None => panel.last_test = "succeeded"

(***************************************************************************)
(* The source database across a call of migrate_database.                  *)
(***************************************************************************)
\* the source database now, and what it was when the call started
Source == servers[self.server].dbs[source_db]
SourceBefore == before[self.server].dbs[source_db]

\* C12: migrate_database leaves the source data alone: for every pair of
\* connections and of names, the same server with source_db = dest_db
\* included, the source database has the same tables and rows after the
\* call as before it, and the tables migrated are those the source database
\* held when the call started.
C12_SourceUnchanged ==
    /\ pc = "done" => Source = SourceBefore
    /\ Succeeded => Listed = DOMAIN SourceBefore.tables

====
